---- MODULE Spec2Model ----
(***************************************************************************)
(* Model of cqparts_fasteners/catalogue/scripts/boltdepot.py:              *)
(*   - GrowingList, the auto-expanding list;                               *)
(*   - BoltDepotDataSpider.table_data / parse, the table extractor and     *)
(*     the metrics walker's record emission;                               *)
(*   - the module-level command-line script (argument checks, then the     *)
(*     scrape, csv and build phases).                                      *)
(* Python indices are 0-based; a Python list l is the sequence whose       *)
(* element l[k] is at position k + 1.                                      *)
(***************************************************************************)
EXTENDS Integers, Sequences, FiniteSets, TLC

VARIABLES
    \* ---- GrowingList under test
    gl,          \* the list's elements
    glop,        \* the last __getitem__ / __setitem__ call and its outcome
    \* ---- table extractor and metrics walker
    table,       \* the <tr> rows of the page's table, each a sequence of cells
    data,        \* table_data's grid
    header_count,\* table_data's header_count
    placed,      \* where table_data put each cell (row, column, spans, value)
    records,     \* the records parse has yielded
    perr,        \* the exception parse ended with, or NoError
    tpc,         \* position of the metrics walker: "table_data", "parse", "done"
    \* ---- command-line script
    argv,        \* positional command-line tokens
    patterns,    \* the --catalogues filter strings (NoArg: option not given)
    onlymetrics, \* --onlymetrics
    list,        \* --list
    actions,     \* args.actions
    catalogues,  \* args.catalogues
    files,       \* feed files on disk: name -> "none" | "old" | "new"
    csvout,      \* catalogues whose csv file has been written
    crawlers,    \* walkers registered with the crawler process
    unlinked,    \* feed files the scrape phase removed
    pc,          \* position of the script
    outcome,     \* how the script ended
    log          \* the phases entered and left, in order

glvars  == <<gl, glop>>
tvars   == <<table, data, header_count, placed, records, perr, tpc>>
svars   == <<argv, patterns, onlymetrics, list, actions, catalogues, files,
             csvout, crawlers, unlinked, pc, outcome, log>>
vars    == <<glvars, tvars, svars>>

\* ---------------------------------------------------------------- bounds
MaxIndex == 5       \* largest index used on the GrowingList under test
MaxRows == 2        \* rows of an input table
MaxCells == 2       \* cells of one table row
MaxSpan == 2        \* largest rowspan / colspan of a cell
MaxActions == 3     \* positional tokens on the command line

\* ------------------------------------------------------------ Python values
None    == "<None>"     \* Python's None (no cell text equals it)
NoError == "<no error>"

Max(a, b) == IF a >= b THEN a ELSE b
Min(a, b) == IF a <= b THEN a ELSE b

\* Python truthiness of a cell value: None and '' are false.
Truthy(v) == v # None /\ v # ""

\* ------------------------------------------------------------- GrowingList
\* [default_type() for i in range(n)]
Defaults(n, default_type) == [k \in 1..Max(n, 0) |-> default_type]

Grow_OffByOne(self, index, default_type) ==
    IF index >= Len(self)
    THEN self \o Defaults(index - Len(self), default_type)
    ELSE self

Grow_StrictlyBeyond(self, index, default_type) ==
    IF index > Len(self)
    THEN self \o Defaults(index + 1 - Len(self), default_type)
    ELSE self

\* the guard and extend shared by __getitem__ and __setitem__
Grow(self, index, default_type) ==
    IF index >= Len(self)
    THEN self \o Defaults(index + 1 - Len(self), default_type)
    ELSE self

\* list.__getitem__ / list.__setitem__ accept -len <= index < len
InRange(l, index) == -Len(l) <= index /\ index < Len(l)
Pos(l, index) == IF index >= 0 THEN index + 1 ELSE Len(l) + index + 1

\* GrowingList.__getitem__: the list afterwards, the value returned, the error
getitem(self, index, default_type) ==
    LET l == Grow(self, index, default_type) IN
    IF InRange(l, index)
    THEN [list |-> l, ret |-> l[Pos(l, index)], err |-> NoError]
    ELSE [list |-> l, ret |-> None, err |-> "IndexError"]

\* GrowingList.__setitem__
setitem(self, index, value, default_type) ==
    LET l == Grow(self, index, default_type) IN
    IF InRange(l, index)
    THEN [list |-> [l EXCEPT ![Pos(l, index)] = value], ret |-> None, err |-> NoError]
    ELSE [list |-> l, ret |-> None, err |-> "IndexError"]

GLValues == {"v", "w"}
GLIndices == (0 - MaxIndex - 1) .. MaxIndex
NoOp == [kind |-> "new", index |-> 0, value |-> None, before |-> <<>>,
         ret |-> None, err |-> NoError]

GLInit ==
    /\ gl = <<>>
    /\ glop = NoOp

GLGet ==
    \E index \in GLIndices :
        LET r == getitem(gl, index, None) IN
        /\ gl' = r.list
        /\ glop' = [kind |-> "get", index |-> index, value |-> None,
                    before |-> gl, ret |-> r.ret, err |-> r.err]

GLSet ==
    \E index \in GLIndices, value \in GLValues :
        LET r == setitem(gl, index, value, None) IN
        /\ gl' = r.list
        /\ glop' = [kind |-> "set", index |-> index, value |-> value,
                    before |-> gl, ret |-> r.ret, err |-> r.err]

\* ---------------------------------------------------------- table extractor
\* What cell.css('::text').extract_first() can give: no text node, or text
\* with trailing whitespace.
NoText == "<no text node>"
RawTexts == {NoText, "a \n"}
Tags == {"th", "td"}
Cells == [tag : Tags, text : RawTexts, rowspan : 1..MaxSpan, colspan : 1..MaxSpan]

\* value.rstrip('\r\n\t ') on the texts above
rstrip(s) == IF s = "a \n" THEN "a" ELSE s

\* lines 181-184: the cell's value
CellValue(cell) == rstrip(IF cell.text = NoText THEN "" ELSE cell.text)

SeqsUpTo(S, n) == UNION {[1..m -> S] : m \in 0..n}
Tables == SeqsUpTo(SeqsUpTo(Cells, MaxCells), MaxRows)

\* push_data's loop: the first slot at or after i that holds None (reading a
\* slot past the end grows the row with None and so stops the loop)
RECURSIVE NextSlot(_, _)
NextSlot(row, i) ==
    IF getitem(row, i, None).ret # None THEN NextSlot(row, i + 1) ELSE i

\* push_data(row, i, val): the row afterwards and the index used
push_data(row, i, val) ==
    LET k == NextSlot(row, i) IN
    [row |-> setitem(row, k, val, None).list, i |-> k]

\* data[r][c] = v on the nested growing list (rows default to an empty
\* GrowingList, slots to None)
SetCell(d, r, c, v) ==
    LET g == getitem(d, r, <<>>) IN
    [g.list EXCEPT ![r + 1] = setitem(g.ret, c, v, None).list]

\* lines 192-194: the loops over di, dj; n counts the writes done so far
RECURSIVE FillSpan(_, _, _, _, _, _, _)
FillSpan(d, i, j, value, rowspan, colspan, n) ==
    IF n >= rowspan * colspan THEN d
    ELSE FillSpan(SetCell(d, i + (n \div colspan), j + (n % colspan), value),
                  i, j, value, rowspan, colspan, n + 1)

\* lines 179-195: the cells of row i from the k-th on
RECURSIVE CellLoop(_, _, _, _)
CellLoop(st, i, cells, k) ==
    IF k > Len(cells) THEN st
    ELSE LET cell  == cells[k]
             value == CellValue(cell)
             g     == getitem(st.data, i, <<>>)            \* data[i]
             p     == push_data(g.ret, st.j, value)
             d1    == [g.list EXCEPT ![i + 1] = p.row]
             d2    == FillSpan(d1, i, p.i, value, cell.rowspan, cell.colspan, 0)
         IN CellLoop([data          |-> d2,
                      j             |-> p.i + 1,
                      is_header_row |-> st.is_header_row /\ cell.tag = "th",
                      placed        |-> Append(st.placed,
                                          [i |-> i, j |-> p.i, value |-> value,
                                           rowspan |-> cell.rowspan,
                                           colspan |-> cell.colspan])],
                     i, cells, k + 1)

\* lines 176-197: the rows from the i-th (0-based) on
RECURSIVE RowLoop(_, _, _)
RowLoop(st, t, i) ==
    IF i >= Len(t) THEN st
    ELSE LET r == CellLoop([data |-> st.data, j |-> 0, is_header_row |-> TRUE,
                            placed |-> st.placed], i, t[i + 1], 1)
         IN RowLoop([data         |-> r.data,
                     header_count |-> IF r.is_header_row
                                      THEN st.header_count + 1
                                      ELSE st.header_count,
                     placed       |-> r.placed],
                    t, i + 1)

\* BoltDepotDataSpider.table_data: (data, header_count), and where each cell went
table_data(t) == RowLoop([data |-> <<>>, header_count |-> 0, placed |-> <<>>], t, 0)

\* dict(zip(header, row)): a later pair replaces an earlier one with the same key
zipdict(header, row) ==
    LET n == Min(Len(header), Len(row)) IN
    [key \in {header[k] : k \in 1..n} |->
        row[CHOOSE k \in 1..n : header[k] = key /\ \A m \in (k+1)..n : header[m] # key]]

\* any(v for v in row_data.values())
anyvalue(row_data) == \E key \in DOMAIN row_data : Truthy(row_data[key])

\* lines 206-210: the records yielded for rows[k..]
RECURSIVE Yielded(_, _, _)
Yielded(header, rows, k) ==
    IF k > Len(rows) THEN <<>>
    ELSE LET row_data == zipdict(header, rows[k]) IN
         (IF anyvalue(row_data) THEN <<row_data>> ELSE <<>>)
            \o Yielded(header, rows, k + 1)

\* data[header_count:], the list's own slicing (the list type's __getslice__ of
\* the Python 2 interpreter this script is written for)
slicefrom(l, from) == SubSeq(l, Min(from, Len(l)) + 1, Len(l))

TInit ==
    /\ table \in Tables
    /\ data = <<>>
    /\ header_count = 0
    /\ placed = <<>>
    /\ records = <<>>
    /\ perr = NoError
    /\ tpc = "table_data"

\* line 203: (data, header_count) = self.table_data(table)
TableData ==
    /\ tpc = "table_data"
    /\ LET r == table_data(table) IN
        /\ data' = r.data
        /\ header_count' = r.header_count
        /\ placed' = r.placed
    /\ tpc' = "parse"
    /\ UNCHANGED <<table, records, perr>>

\* lines 205-210: the header row, then one record per later row with data
Parse ==
    /\ tpc = "parse"
    /\ LET h == getitem(data, header_count - 1, <<>>) IN
        /\ data' = h.list
        /\ perr' = h.err
        /\ records' = IF h.err = NoError
                      THEN Yielded(h.ret, slicefrom(h.list, header_count), 1)
                      ELSE <<>>
    /\ tpc' = "done"
    /\ UNCHANGED <<table, header_count, placed>>

\* ------------------------------------------------------ command-line script
Range(q) == {q[k] : k \in DOMAIN q}

\* SPIDER_MAP's keys, in sorted() order
SpiderNames == <<"bolts", "nuts", "threaded-rods", "woodscrews">>

\* [cls.name for cls in METRICS_SPIDERS]
MetricsNames == <<"d-woodscrew-diam", "d-us-bolt-thread-len", "d-us-tpi",
                  "d-met-threadpitch", "d-met-boltheadsize">>

FeedNames == Range(SpiderNames) \cup Range(MetricsNames)

VALID_ACTIONS == {"scrape", "csv", "build"}

\* value.lower() on the tokens below
lower(value) == IF value = "Build" THEN "build" ELSE value

\* Positional tokens a command line may carry
Tokens == {"scrape", "csv", "build", "Build", "bolts"}

\* --catalogues values, as value.split(',') gives them; NoArg: option not given
NoArg == <<"<default>">>
CatalogueArgs == {NoArg, <<"*">>, <<"bolts">>, <<"nuts", "bolts">>,
                  <<"screws">>, <<"b*", "woodscrews">>}

\* Feed files an earlier run may have left
OldCatalogueFeeds == {{}, {"bolts"}, {"nuts", "woodscrews"}, Range(SpiderNames)}
OldMetricsFeeds == {{}, {"d-us-tpi"}, Range(MetricsNames)}

\* fnmatch on the filter strings above
fnmatch(name, pat) ==
    \/ pat = "*"
    \/ pat = "b*" /\ name = "bolts"
    \/ pat = name

\* catalogues_list_type(value): the sorted union of the filters' matches
catalogues_list_type(value) ==
    SelectSeq(SpiderNames,
              LAMBDA name : \E k \in DOMAIN value : fnmatch(name, value[k]))

\* Names bound in the module's namespace when the csv phase runs
ModuleGlobals == {"os", "inspect", "scrapy", "re", "argparse", "logging",
                  "fnmatch", "json", "csv", "split_url", "join_url",
                  "BoltDepotSpider", "BoltDepotProductSpider", "WoodScrewSpider",
                  "BoltSpider", "NutSpider", "ThreadedRodSpider", "SPIDERS",
                  "SPIDER_MAP", "GrowingList", "BoltDepotDataSpider",
                  "DataWoodScrewDiam", "DataUSBoltThreadLen", "DataUSThreadPerInch",
                  "DataMetricThreadPitch", "DataMetricBoltHeadSize",
                  "METRICS_SPIDERS", "DEFAULT_PREFIX", "parser", "VALID_ACTIONS",
                  "action_type", "catalogues_list_type", "args"}

PhaseOrder_CsvFirst == <<"csv", "scrape", "build">>

\* The order of the phase blocks in the script
PhaseOrder == <<"scrape", "csv", "build">>

\* Where the script goes when a phase block is left without an exception
After(phase) ==
    LET k == CHOOSE n \in DOMAIN PhaseOrder : PhaseOrder[n] = phase IN
    IF k < Len(PhaseOrder) THEN PhaseOrder[k + 1] ELSE "done"

Event(phase, ev) == [phase |-> phase, ev |-> ev]

feed_names_NoMetrics(om, cats) == IF om THEN <<>> ELSE cats

\* lines 338-341
feed_names(om, cats) == (IF om THEN <<>> ELSE cats) \o MetricsNames

SInit ==
    /\ argv \in SeqsUpTo(Tokens, MaxActions)
    /\ patterns \in CatalogueArgs
    /\ onlymetrics \in BOOLEAN
    /\ list \in BOOLEAN
    /\ \E oc \in OldCatalogueFeeds, om \in OldMetricsFeeds :
          files = [n \in FeedNames |-> IF n \in oc \cup om THEN "old" ELSE "none"]
    /\ actions = <<>>
    /\ catalogues = <<>>
    /\ csvout = {}
    /\ crawlers = {}
    /\ unlinked = {}
    /\ pc = "parse_args"
    /\ outcome = "running"
    /\ log = <<>>

\* line 315: parser.parse_args() (action_type on every token; a token that is
\* no action makes argparse report a usage error and exit with status 2)
ParseArgs ==
    /\ pc = "parse_args"
    /\ IF \E k \in DOMAIN argv : lower(argv[k]) \notin VALID_ACTIONS
       THEN /\ pc' = "done"
            /\ outcome' = "usage error"
            /\ UNCHANGED <<actions, catalogues>>
       ELSE /\ actions' = [k \in DOMAIN argv |-> lower(argv[k])]
            /\ catalogues' = catalogues_list_type(
                                IF patterns = NoArg THEN <<"*">> ELSE patterns)
            /\ pc' = "list"
            /\ UNCHANGED outcome
    /\ UNCHANGED <<argv, patterns, onlymetrics, list, files, csvout, crawlers,
                   unlinked, log>>

\* lines 321-324
ListCatalogues ==
    /\ pc = "list"
    /\ IF list
       THEN pc' = "done" /\ outcome' = "exit 0"
       ELSE pc' = "no_actions" /\ UNCHANGED outcome
    /\ UNCHANGED <<argv, patterns, onlymetrics, list, actions, catalogues, files,
                   csvout, crawlers, unlinked, log>>

\* lines 327-329
NoActions ==
    /\ pc = "no_actions"
    /\ IF actions = <<>>
       THEN pc' = "done" /\ outcome' = "exit 1"
       ELSE pc' = PhaseOrder[1] /\ UNCHANGED outcome
    /\ UNCHANGED <<argv, patterns, onlymetrics, list, actions, catalogues, files,
                   csvout, crawlers, unlinked, log>>

\* lines 334-348: the scrape test, and the feed files cleared
ScrapeClear ==
    /\ pc = "scrape"
    /\ IF "scrape" \in Range(actions)
       THEN LET gone == {n \in Range(feed_names(onlymetrics, catalogues)) :
                            files[n] # "none"} IN
            /\ files' = [n \in FeedNames |-> IF n \in gone THEN "none" ELSE files[n]]
            /\ unlinked' = gone
            /\ log' = Append(log, Event("scrape", "start"))
            /\ pc' = "create_crawlers"
            /\ UNCHANGED outcome
       ELSE /\ pc' = After("scrape")
            /\ outcome' = IF After("scrape") = "done" THEN "exit 0" ELSE outcome
            /\ UNCHANGED <<files, unlinked, log>>
    /\ UNCHANGED <<argv, patterns, onlymetrics, list, actions, catalogues,
                   csvout, crawlers>>

\* lines 352-366
CreateCrawlers ==
    /\ pc = "create_crawlers"
    /\ crawlers' = (IF onlymetrics THEN {} ELSE Range(catalogues))
                        \cup Range(MetricsNames)
    /\ pc' = "start_scraping"
    /\ UNCHANGED <<argv, patterns, onlymetrics, list, actions, catalogues, files,
                   csvout, unlinked, outcome, log>>

\* line 369, process.start() called: the registered walkers start
StartScraping ==
    /\ pc = "start_scraping"
    /\ pc' = "scraping"
    /\ UNCHANGED <<argv, patterns, onlymetrics, list, actions, catalogues, files,
                   csvout, crawlers, unlinked, outcome, log>>

\* line 369, process.start() returns: every walker has written its feed file
ScrapingDone ==
    /\ pc = "scraping"
    /\ files' = [n \in FeedNames |-> IF n \in crawlers THEN "new" ELSE files[n]]
    /\ log' = Append(log, Event("scrape", "end"))
    /\ pc' = After("scrape")
    /\ outcome' = IF After("scrape") = "done" THEN "exit 0" ELSE outcome
    /\ UNCHANGED <<argv, patterns, onlymetrics, list, actions, catalogues,
                   csvout, crawlers, unlinked>>

\* lines 375-399 once FEED_URI resolves: the catalogues converted before the
\* first one whose feed file cannot be opened
csv_loop(cats, fs) ==
    LET missing == {k \in DOMAIN cats : fs[cats[k]] = "none"} IN
    IF missing = {}
    THEN [written |-> Range(cats), err |-> NoError]
    ELSE LET m == CHOOSE k \in missing : \A o \in missing : k <= o IN
         [written |-> {cats[k] : k \in 1..(m - 1)}, err |-> "IOError"]

\* lines 374-399
CsvPhase ==
    /\ pc = "csv"
    /\ IF "csv" \notin Range(actions)
       THEN /\ pc' = After("csv")
            /\ outcome' = IF After("csv") = "done" THEN "exit 0" ELSE outcome
            /\ UNCHANGED <<csvout, log>>
       ELSE IF catalogues = <<>>
       THEN /\ log' = log \o <<Event("csv", "start"), Event("csv", "end")>>
            /\ pc' = After("csv")
            /\ outcome' = IF After("csv") = "done" THEN "exit 0" ELSE outcome
            /\ UNCHANGED csvout
       ELSE IF "FEED_URI" \notin ModuleGlobals      \* line 377
       THEN /\ log' = log \o <<Event("csv", "start"), Event("csv", "fail")>>
            /\ pc' = "done"
            /\ outcome' = "NameError"
            /\ UNCHANGED csvout
       ELSE LET r == csv_loop(catalogues, files) IN
            /\ csvout' = r.written
            /\ IF r.err = NoError
               THEN /\ log' = log \o <<Event("csv", "start"), Event("csv", "end")>>
                    /\ pc' = After("csv")
                    /\ outcome' = IF After("csv") = "done" THEN "exit 0" ELSE outcome
               ELSE /\ log' = log \o <<Event("csv", "start"), Event("csv", "fail")>>
                    /\ pc' = "done"
                    /\ outcome' = r.err
    /\ UNCHANGED <<argv, patterns, onlymetrics, list, actions, catalogues, files,
                   crawlers, unlinked>>

\* lines 427-431
BuildPhase ==
    /\ pc = "build"
    /\ IF "build" \in Range(actions)
       THEN /\ log' = log \o <<Event("build", "start"), Event("build", "fail")>>
            /\ pc' = "done"
            /\ outcome' = "NotImplementedError"
       ELSE /\ pc' = After("build")
            /\ outcome' = IF After("build") = "done" THEN "exit 0" ELSE outcome
            /\ UNCHANGED log
    /\ UNCHANGED <<argv, patterns, onlymetrics, list, actions, catalogues, files,
                   csvout, crawlers, unlinked>>

\* ------------------------------------------------------------ specifications
GLIdle ==
    /\ gl = <<>>
    /\ glop = NoOp

TIdle ==
    /\ table = <<>>
    /\ data = <<>>
    /\ header_count = 0
    /\ placed = <<>>
    /\ records = <<>>
    /\ perr = NoError
    /\ tpc = "idle"

SIdle ==
    /\ argv = <<>>
    /\ patterns = NoArg
    /\ onlymetrics = FALSE
    /\ list = FALSE
    /\ actions = <<>>
    /\ catalogues = <<>>
    /\ files = [n \in FeedNames |-> "none"]
    /\ csvout = {}
    /\ crawlers = {}
    /\ unlinked = {}
    /\ pc = "idle"
    /\ outcome = "running"
    /\ log = <<>>

\* The command-line script
Init == SInit /\ GLIdle /\ TIdle

Next ==
    \/ ParseArgs /\ UNCHANGED <<glvars, tvars>>
    \/ ListCatalogues /\ UNCHANGED <<glvars, tvars>>
    \/ NoActions /\ UNCHANGED <<glvars, tvars>>
    \/ ScrapeClear /\ UNCHANGED <<glvars, tvars>>
    \/ CreateCrawlers /\ UNCHANGED <<glvars, tvars>>
    \/ StartScraping /\ UNCHANGED <<glvars, tvars>>
    \/ ScrapingDone /\ UNCHANGED <<glvars, tvars>>
    \/ CsvPhase /\ UNCHANGED <<glvars, tvars>>
    \/ BuildPhase /\ UNCHANGED <<glvars, tvars>>

Spec == Init /\ [][Next]_vars

\* A GrowingList and calls of its two methods
InitGL == GLInit /\ TIdle /\ SIdle

NextGL ==
    \/ GLGet /\ UNCHANGED <<tvars, svars>>
    \/ GLSet /\ UNCHANGED <<tvars, svars>>

SpecGL == InitGL /\ [][NextGL]_vars

\* The metrics walker on one table
InitTable == TInit /\ GLIdle /\ SIdle

NextTable ==
    \/ TableData /\ UNCHANGED <<glvars, svars>>
    \/ Parse /\ UNCHANGED <<glvars, svars>>

SpecTable == InitTable /\ [][NextTable]_vars

\* ------------------------------------------------------------------- claims
Rank(phase) == CASE phase = "scrape" -> 1 [] phase = "csv" -> 2 [] phase = "build" -> 3

Before(b, phase, ev) == \E a \in 1..(b - 1) : log[a] = Event(phase, ev)

Requested(phase) == phase \in Range(actions)

\* C1: whatever the order and repetition of the actions on the command line,
\* only requested phases run, they run in the order scrape, csv, build, csv
\* starts only after a requested scrape has ended, and build starts only after
\* a requested scrape and a requested csv have ended.
C1_PhasesInOrder ==
    \A b \in DOMAIN log :
        /\ Requested(log[b].phase)
        /\ \A a \in 1..(b - 1) : Rank(log[a].phase) <= Rank(log[b].phase)
        /\ log[b] = Event("csv", "start") /\ Requested("scrape")
              => Before(b, "scrape", "end")
        /\ log[b] = Event("build", "start")
              => /\ Requested("scrape") => Before(b, "scrape", "end")
                 /\ Requested("csv") => Before(b, "csv", "end")

\* A run given build first, then csv and scrape, in which all three phases ran
C1_Witness ==
    /\ Len(argv) = 3
    /\ lower(argv[1]) = "build"
    /\ Requested("scrape") /\ Requested("csv")
    /\ \E a, b, c \in DOMAIN log :
          /\ a < b /\ b < c
          /\ log[a] = Event("scrape", "end")
          /\ log[b] = Event("csv", "end")
          /\ log[c] = Event("build", "start")

\* C2: a run that requests build, and is not stopped by the argument check,
\* --list or the no-action exit, ends with the "not implemented" failure.
C2_BuildEndsNotImplemented ==
    pc = "done" /\ Requested("build") /\ ~list
        => outcome = "NotImplementedError"

CsvOver == \E k \in DOMAIN log : log[k].phase = "csv" /\ log[k].ev \in {"end", "fail"}

\* C3: the csv phase writes the csv output (the header row and one row per
\* record) of every requested catalogue whose feed store exists, and does not
\* fail over the records of existing feed stores.
C3_CsvWrittenPerCatalogue ==
    CsvOver =>
        /\ \A n \in Range(catalogues) : files[n] # "none" => n \in csvout
        /\ (\A n \in Range(catalogues) : files[n] # "none")
              => \A k \in DOMAIN log : log[k] # Event("csv", "fail")

Targets == (IF onlymetrics THEN {} ELSE Range(catalogues)) \cup Range(MetricsNames)

\* C4: when scrape is requested, from the end of the clearing step until the
\* walkers have started no target's feed file exists, and no feed file of an
\* earlier run is a target's feed file at any later point.
C4_FeedsClearedBeforeWalkers ==
    /\ pc \in {"create_crawlers", "start_scraping", "scraping"}
          => \A n \in Targets : files[n] = "none"
    /\ (\E k \in DOMAIN log : log[k] = Event("scrape", "start"))
          => \A n \in Targets : files[n] # "old"

\* Walkers started under --onlymetrics after old metrics feeds were removed,
\* with a catalogue feed (no target) left alone
C4_Witness ==
    /\ pc = "scraping"
    /\ onlymetrics
    /\ crawlers # {}
    /\ unlinked # {}
    /\ \E n \in Range(catalogues) : files[n] = "old"

\* C5: set(k, v) and get(k) with k at or past the length n leave a list of
\* length k + 1 whose first n elements are unchanged and whose elements n..k-1
\* are the default; set puts v at k; get leaves the default at k and returns it;
\* neither raises.
C5_GrowsOnAccessPastEnd ==
    glop.kind \in {"get", "set"} /\ glop.index >= Len(glop.before) =>
        /\ glop.err = NoError
        /\ Len(gl) = glop.index + 1
        /\ \A k \in 1..Len(glop.before) : gl[k] = glop.before[k]
        /\ \A k \in (Len(glop.before) + 1)..glop.index : gl[k] = None
        /\ glop.kind = "set" => gl[glop.index + 1] = glop.value
        /\ glop.kind = "get" => gl[glop.index + 1] = None /\ glop.ret = None

\* set(5, "v") on the empty list
C5_Witness ==
    /\ glop.kind = "set" /\ glop.index = 5 /\ glop.value = "v"
    /\ glop.before = <<>>
    /\ gl = <<None, None, None, None, None, "v">>

\* C6 as stated: get and set never raise, whatever the integer index.
C6_NeverRaises == glop.err = NoError

\* C6 as amended: get and set raise exactly for a negative index that reaches
\* before the start of the list (IndexError, the list left as it was); an index
\* at or past the length, or a negative one within the list, never raises.
C6_RaisesOnlyBeforeStart ==
    glop.kind \in {"get", "set"} =>
        /\ glop.err = "IndexError" <=> glop.index < 0 - Len(glop.before)
        /\ glop.err \in {NoError, "IndexError"}
        /\ glop.err = "IndexError" => gl = glop.before

\* get(-3) on a list of two elements raised
C6_Witness ==
    /\ glop.kind = "get" /\ glop.index = 0 - 3
    /\ Len(glop.before) = 2
    /\ glop.err = "IndexError"

AllHeader(row) == \A k \in DOMAIN row : row[k].tag = "th"

\* the number of leading rows made of header cells only
LeadingHeaderRows(t) ==
    CHOOSE n \in 0..Len(t) :
        /\ \A k \in 1..n : AllHeader(t[k])
        /\ n < Len(t) => ~AllHeader(t[n + 1])

\* C7: header_count is the number of leading rows made of header cells only.
C7_HeaderCountIsLeadingRows ==
    tpc \in {"parse", "done"} => header_count = LeadingHeaderRows(table)

\* C8: every placed cell's value is at every grid position of the rectangle
\* its rowspan and colspan cover.
C8_SpannedCellsKeepValue ==
    tpc = "parse" =>
        \A c \in Range(placed) :
            \A di \in 0..(c.rowspan - 1), dj \in 0..(c.colspan - 1) :
                /\ c.i + di < Len(data)
                /\ c.j + dj < Len(data[c.i + di + 1])
                /\ data[c.i + di + 1][c.j + dj + 1] = c.value

\* row's values paired with the header's are not all empty
PairedNonEmpty(header, row) ==
    \E k \in 1..Min(Len(header), Len(row)) : Truthy(row[k])

\* C9: parse yields, in row order, exactly one record for each grid row after
\* the header rows whose values paired with the last header row are not all
\* empty, and none for the other rows.
C9_OneRecordPerRowWithData ==
    tpc = "done" /\ header_count >= 1 =>
        LET header == data[header_count]
            rows   == SelectSeq(SubSeq(data, header_count + 1, Len(data)),
                                LAMBDA row : PairedNonEmpty(header, row))
        IN /\ perr = NoError
           /\ records = [k \in DOMAIN rows |-> zipdict(header, rows[k])]

\* C10: parse of a table without header rows fails with the IndexError of the
\* index -1 access and yields no record.
C10_NoHeaderRowsIsAnError ==
    tpc = "done" /\ header_count = 0 => perr = "IndexError" /\ records = <<>>

====
